---- MODULE Spec2Model ----
(***************************************************************************)
(* Model of the watchlist service's process entry point (cmd/main.go) and  *)
(* of its asynchronous multi-sink logger (pkg/logger/logger.go):           *)
(* KafkaHandler, FileHandler, StdoutHandler, MultiHandler and NewLogger.   *)
(*                                                                         *)
(* Goroutines of the program are the processes of the model: the main      *)
(* goroutine (mainPc), the two KafkaHandler workers, the FileHandler       *)
(* worker, and the request goroutines that log through the logger          *)
(* (MultiHandle).  A channel is a sequence; a closed quitChan is TRUE.     *)
(* Variables whose comment says "history" are not program state: they      *)
(* record what the operations did, so that properties can refer to it.     *)
(***************************************************************************)
EXTENDS Integers, Sequences, FiniteSets, TLC

VARIABLES
    mainPc,        \* position of the main goroutine (cmd/main.go)
    bufferSize,    \* cfg.LogBufferSize, 0 before LoadConfig returned
    producer,      \* KafkaHandler.producer: "none" | "open" | "closed"
    kLogChan,      \* KafkaHandler.logChan: the buffered records
    kQuitChan,     \* KafkaHandler.quitChan is closed
    kWorker,       \* KafkaHandler.processLogs: "none" | "select" | "send" | "done"
    kMsg,          \* the message processLogs is sending to producer.Input()
    kErrWorker,    \* KafkaHandler.handleProducerErrors: "none" | "select" | "done"
    kDiag,         \* number of producer errors printed by handleProducerErrors
    kOut,          \* messages received by producer.Input(), in order
    fDir,          \* logs/<service> exists (created by MkdirAll)
    file,          \* FileHandler.file: "none" | "open" | "closed"
    fLogChan,      \* FileHandler.logChan
    fQuitChan,     \* FileHandler.quitChan is closed
    fWorker,       \* FileHandler.processLogs: "none" | "select" | "write" | "done"
    fRec,          \* the record processLogs has dequeued and not yet written
    fOut,          \* the writes issued to the file, in order
    sOut,          \* the lines written to stdout, in order
    stdoutBroken,  \* writes to os.Stdout fail (the stream was closed by its reader)
    closing,       \* the sink whose Close the main goroutine is inside: "none" | "kafka" | "file"
    caIdx,         \* CloseAll: index of the next child to close (0: not started)
    nextId,        \* history: number of the next record
    calls,         \* history: one entry per MultiHandler.Handle call
    kHist,         \* history: one entry per KafkaHandler.Handle call
    fHist,         \* history: one entry per FileHandler.Handle call
    kAtClose,      \* history: ids queued in kLogChan when kQuitChan was closed
    fAtClose,      \* history: ids queued in fLogChan when fQuitChan was closed
    closeCalls,    \* history: number of Close calls per sink
    closeRet,      \* history: what each sink's Close returned: "none" | "nil" | "err"
    resClose,      \* history: what closing each sink's resource returned
    closeAllCalls, \* history: number of CloseAll calls
    closeAllRet,   \* history: what CloseAll gave its caller: "none" | "nil" | "err"
    serverDone,    \* history: RunServer has returned
    fn,            \* the function last called on its own: "none" or its name
    fnArg,         \* the arguments of that call
    fnRes,         \* what that call returned
    rows,          \* the rows of table watchlist, in insertion order
    lastRowId,     \* the last value the table's ID sequence gave out
    req            \* the gRPC requests: position, arguments, and history of each

\* the state of the process of cmd/main.go and of its logger
procVars == <<mainPc, bufferSize, producer, kLogChan, kQuitChan, kWorker, kMsg,
              kErrWorker, kDiag, kOut, fDir, file, fLogChan, fQuitChan, fWorker,
              fRec, fOut, sOut, stdoutBroken, closing, caIdx, nextId, calls, kHist,
              fHist, kAtClose, fAtClose, closeCalls, closeRet, resClose,
              closeAllCalls, closeAllRet, serverDone>>

fnVars == <<fn, fnArg, fnRes>>
svcVars == <<rows, lastRowId, req>>
auxVars == <<fnVars, svcVars>>

vars == <<procVars, auxVars>>

kafkaVars == <<producer, kLogChan, kQuitChan, kWorker, kMsg, kErrWorker, kDiag,
               kOut, kAtClose>>
fileVars == <<fDir, file, fLogChan, fQuitChan, fWorker, fRec, fOut, fAtClose>>
logVars == <<nextId, calls, kHist, fHist, sOut, stdoutBroken>>
closeVars == <<closing, caIdx, closeCalls, closeRet, resClose, closeAllCalls,
               closeAllRet>>

-----------------------------------------------------------------------------
(* Bounds of the model *)

\* number of records the request goroutines log
MaxRecords == 3
\* largest LOG_BUFFER_SIZE written in the environment
MaxBuf == 2
\* number of producer errors handleProducerErrors is seen to print
MaxDiag == 1
\* clock ticks per second: a record's time has sub-second precision
TicksPerSec == 2

NoRec == [id |-> 0]
Nil == "nil"
Err == "err"

Levels == {"Info"}
Messages == {"x"}

-----------------------------------------------------------------------------
(* Pure functions *)

RECURSIVE SeqToSet(_)
SeqToSet(s) == IF s = <<>> THEN {} ELSE {Head(s)} \cup SeqToSet(Tail(s))

IsPrefix(s, t) == Len(s) <= Len(t) /\ SubSeq(t, 1, Len(s)) = s

Ids(s) == [i \in DOMAIN s |-> s[i].id]

\* strconv.Atoi on a string given as a sequence of characters
DigitVal(c) ==
    CASE c = "0" -> 0 [] c = "1" -> 1 [] c = "2" -> 2 [] c = "3" -> 3
      [] c = "4" -> 4 [] c = "5" -> 5 [] c = "6" -> 6 [] c = "7" -> 7
      [] c = "8" -> 8 [] c = "9" -> 9 [] OTHER -> -1

RECURSIVE DigitsValue(_, _)
DigitsValue(s, acc) ==
    IF s = <<>> THEN acc
    ELSE DigitsValue(Tail(s), acc * 10 + DigitVal(Head(s)))

Atoi(s) ==
    LET signed == s # <<>> /\ Head(s) \in {"-", "+"}
        body == IF signed THEN Tail(s) ELSE s
        ok == body # <<>> /\ \A i \in DOMAIN body : DigitVal(body[i]) >= 0
        mag == IF ok THEN DigitsValue(body, 0) ELSE 0
    IN  [err |-> ~ok,
         val |-> IF signed /\ Head(s) = "-" THEN 0 - mag ELSE mag]

DefaultLogBufferSize == 100

\* LoadConfig's treatment of LOG_BUFFER_SIZE: the required-variable check,
\* then the conversion with its fallback
ParseLogBufferSize(raw) ==
    IF raw = <<>> THEN [err |-> TRUE, val |-> 0]
    ELSE LET a == Atoi(raw)
         IN  [err |-> FALSE,
              val |-> IF a.err \/ a.val <= 0 THEN DefaultLogBufferSize ELSE a.val]

\* slog.Level.String for the named levels
LevelString(l) ==
    CASE l = "Debug" -> "DEBUG" [] l = "Info" -> "INFO"
      [] l = "Warn" -> "WARN" [] l = "Error" -> "ERROR"

\* record.Time.Format(time.RFC3339): whole seconds, the fraction is dropped
FormatRFC3339(t) == [sec |-> t \div TicksPerSec]

\* the line FileHandler.processLogs writes
FileLine(r) ==
    <<"[", LevelString(r.level), "] - ", FormatRFC3339(r.time), " - ", r.msg, "\n">>

\* the map logEntry that KafkaHandler.processLogs builds for record r
LogEntry(r) ==
    [k \in {"time", "level", "msg"} |->
        CASE k = "time" -> FormatRFC3339(r.time)
          [] k = "level" -> LevelString(r.level)
          [] k = "msg" -> r.msg]

\* the keys of logEntry in the byte order of strings
KeyOrder == <<"level", "msg", "time">>

\* json.Marshal of a map: an object whose members are written in the sorted
\* order of the keys, here as the sequence of its <<key, value>> members
JsonMarshal(m) ==
    LET ks == SelectSeq(KeyOrder, LAMBDA k : k \in DOMAIN m)
    IN  [i \in DOMAIN ks |-> <<ks[i], m[ks[i]]>>]

\* Faulty variant of KafkaPayload: the members come in the order in which the
\* map literal lists them
KafkaPayloadInLiteralOrder(r) ==
    << <<"time", FormatRFC3339(r.time)>>,
       <<"level", LevelString(r.level)>>,
       <<"msg", r.msg>> >>

\* the payload of the message: json.Marshal(logEntry)
KafkaPayload(r) == JsonMarshal(LogEntry(r))

KafkaMessage(r) == [key |-> "log", value |-> KafkaPayload(r)]

\* what the sinks emit for record r, with the record's number
FileOutEntry(r) == [id |-> r.id, line |-> FileLine(r)]
KafkaOutEntry(r) == [id |-> r.id, msg |-> KafkaMessage(r)]

\* the line StdoutHandler.Handle writes
StdoutColor(l) ==
    CASE l = "Debug" -> "blue" [] l = "Info" -> "green"
      [] l = "Warn" -> "yellow" [] l = "Error" -> "red" [] OTHER -> "reset"

StdoutLine(r) ==
    <<StdoutColor(r.level), "[", LevelString(r.level), "]", "reset", " - ",
      [tick |-> r.time], " - ", r.msg, "\n">>

\* Faulty variant of TrySend: refuses every record once quitChan is closed
TrySendDropsWhenClosed(ch, cap, quit, r) ==
    IF Len(ch) < cap /\ ~quit THEN [ok |-> TRUE, ch |-> Append(ch, r)]
    ELSE [ok |-> FALSE, ch |-> ch]

\* Faulty variant of TrySend: a full channel loses its oldest record instead
TrySendOverwrites(ch, cap, quit, r) ==
    IF Len(ch) < cap THEN [ok |-> TRUE, ch |-> Append(ch, r)]
    ELSE [ok |-> TRUE, ch |-> Append(Tail(ch), r)]

\* Faulty variant of TrySend: the record is appended whatever the queue holds
TrySendUnbounded(ch, cap, quit, r) == [ok |-> TRUE, ch |-> Append(ch, r)]

\* select { case ch <- r: ...; default: ... } on a channel of capacity cap;
\* quit, the state of quitChan, is not looked at by Handle
TrySend(ch, cap, quit, r) ==
    IF Len(ch) < cap THEN [ok |-> TRUE, ch |-> Append(ch, r)]
    ELSE [ok |-> FALSE, ch |-> ch]

\* the children of the dispatcher NewLogger builds, in list order
Handlers == <<"kafka", "file", "stdout">>

\* Faulty variant of HandleTargets: the loop ends one child early
HandleTargetsSkipLast(hs) == SubSeq(hs, 1, Len(hs) - 1)

\* the children MultiHandler.Handle calls Handle on: the whole list
HandleTargets(hs) == hs

\* Faulty variant of FirstErr: every failing child overwrites the error
LastErr(rs) ==
    LET failed == {i \in DOMAIN rs : rs[i] # Nil}
    IN  IF failed = {} THEN Nil
        ELSE rs[CHOOSE i \in failed : \A j \in failed : j <= i]

\* firstErr of MultiHandler.Handle over the children's results
RECURSIVE FirstErr(_)
FirstErr(rs) ==
    IF rs = <<>> THEN Nil
    ELSE IF Head(rs) # Nil THEN Head(rs) ELSE FirstErr(Tail(rs))

Has(hs, h) == \E i \in DOMAIN hs : hs[i] = h

-----------------------------------------------------------------------------
(* The gRPC requests served by WatchlistService *)

\* number of requests, each served in its own goroutine
MaxRequests == 2
\* largest media id a request names
MaxMedia == 1

Requests == 1..MaxRequests

\* a request the server has not received yet; seen and overlap are history:
\* the table when the method was called, and whether another request was
\* inside the repository at some time between the call and the return
IdleReq ==
    [pc |-> "idle", method |-> "none", media |-> 0, user |-> 0,
     ctx |-> "live", atCall |-> "live", logs |-> <<>>, repoCalls |-> 0,
     code |-> "none", resp |-> "none", seen |-> <<>>, overlap |-> FALSE]

\* the request is inside a repository method
InFlight(q) == q.pc \notin {"idle", "done"}

-----------------------------------------------------------------------------
(* Initial state: the process has started, nothing is constructed *)

Init ==
    /\ mainPc = "loadConfig"
    /\ bufferSize = 0
    /\ producer = "none"
    /\ kLogChan = <<>>
    /\ kQuitChan = FALSE
    /\ kWorker = "none"
    /\ kMsg = NoRec
    /\ kErrWorker = "none"
    /\ kDiag = 0
    /\ kOut = <<>>
    /\ fDir = FALSE
    /\ file = "none"
    /\ fLogChan = <<>>
    /\ fQuitChan = FALSE
    /\ fWorker = "none"
    /\ fRec = NoRec
    /\ fOut = <<>>
    /\ sOut = <<>>
    /\ stdoutBroken = FALSE
    /\ closing = "none"
    /\ caIdx = 0
    /\ nextId = 1
    /\ calls = <<>>
    /\ kHist = <<>>
    /\ fHist = <<>>
    /\ kAtClose = {}
    /\ fAtClose = {}
    /\ closeCalls = [h \in {"kafka", "file", "stdout"} |-> 0]
    /\ closeRet = [h \in {"kafka", "file", "stdout"} |-> "none"]
    /\ resClose = [h \in {"kafka", "file"} |-> "none"]
    /\ closeAllCalls = 0
    /\ closeAllRet = "none"
    /\ serverDone = FALSE
    /\ fn = "none"
    /\ fnArg = <<>>
    /\ fnRes = <<>>
    /\ rows = <<>>
    /\ lastRowId = 0
    /\ req = [p \in Requests |-> IdleReq]

\* the process has not exited
Alive == mainPc \in {"loadConfig", "newKafka", "newFile", "newLoggerCleanup",
                     "serving", "closeAll"}

-----------------------------------------------------------------------------
(* The main goroutine: configuration and construction *)

DigitChars == <<"0", "1", "2", "3", "4", "5", "6", "7", "8", "9">>

\* the values LOG_BUFFER_SIZE takes in the environment: unset or empty, not a
\* number, zero, negative, and the positive sizes up to MaxBuf
RawBufferSizes ==
    {<<>>, <<"a">>, <<"0">>, <<"-", "1">>}
        \cup {<<DigitChars[n + 1]>> : n \in 1..MaxBuf}

\* config.LoadConfig as main uses it; otherOk: the .env file loads and the
\* other required variables are set
LoadConfig ==
    /\ mainPc = "loadConfig"
    /\ \E otherOk \in BOOLEAN, raw \in RawBufferSizes :
          LET p == ParseLogBufferSize(raw)
          IN  IF ~otherOk \/ p.err
              THEN /\ mainPc' = "fatalConfig"
                   /\ UNCHANGED bufferSize
              ELSE /\ mainPc' = "newKafka"
                   /\ bufferSize' = p.val
    /\ UNCHANGED <<auxVars, kafkaVars, fileVars, logVars, closeVars, serverDone>>

\* Faulty variant of KafkaCloseSignal: Close on a closed handler goes on to
\* the wait and to the producer
KafkaCloseSignalRepeats(nextPc) ==
    /\ mainPc' = nextPc
    /\ kQuitChan' = TRUE
    /\ kAtClose' = IF kQuitChan THEN kAtClose ELSE SeqToSet(Ids(kLogChan))
    /\ closing' = "kafka"
    /\ closeCalls' = [closeCalls EXCEPT !["kafka"] = @ + 1]

\* close(k.quitChan), the first statement of KafkaHandler.Close; closing an
\* already closed channel panics
KafkaCloseSignal(nextPc) ==
    /\ mainPc' = IF kQuitChan THEN "panic" ELSE nextPc
    /\ kQuitChan' = TRUE
    /\ kAtClose' = IF kQuitChan THEN kAtClose ELSE SeqToSet(Ids(kLogChan))
    /\ closing' = IF kQuitChan THEN "none" ELSE "kafka"
    /\ closeCalls' = [closeCalls EXCEPT !["kafka"] = @ + 1]

\* close(f.quitChan), the first statement of FileHandler.Close
FileCloseSignal(nextPc) ==
    /\ mainPc' = IF fQuitChan THEN "panic" ELSE nextPc
    /\ fQuitChan' = TRUE
    /\ fAtClose' = IF fQuitChan THEN fAtClose ELSE SeqToSet(Ids(fLogChan))
    /\ closing' = IF fQuitChan THEN "none" ELSE "file"
    /\ closeCalls' = [closeCalls EXCEPT !["file"] = @ + 1]

\* NewLogger, first half: NewKafkaHandler
NewKafkaHandler ==
    /\ mainPc = "newKafka"
    /\ \E ok \in BOOLEAN :
          IF ok
          THEN /\ producer' = "open"
               /\ kWorker' = "select"
               /\ kErrWorker' = "select"
               /\ mainPc' = "newFile"
          ELSE /\ mainPc' = "fatalLogger"
               /\ UNCHANGED <<producer, kWorker, kErrWorker>>
    /\ UNCHANGED <<auxVars, bufferSize, kLogChan, kQuitChan, kMsg, kDiag, kOut, kAtClose,
                   fileVars, logVars, closeVars, serverDone>>

\* Faulty variant of NewLoggerCleanup: the error is returned at once
NewLoggerSkipsCleanup ==
    /\ mainPc' = "fatalLogger"
    /\ UNCHANGED <<kQuitChan, kAtClose, closing, closeCalls>>

\* what NewLogger does when NewFileHandler fails: it closes the Kafka handler
\* before it returns the error
NewLoggerCleanup == KafkaCloseSignal("newLoggerCleanup")

\* NewLogger, second half: NewFileHandler, then the dispatcher is built
NewFileHandler ==
    /\ mainPc = "newFile"
    /\ \E outcome \in {"mkdirErr", "openErr", "ok"} :
          /\ fDir' = (outcome # "mkdirErr")
          /\ IF outcome = "ok"
             THEN /\ file' = "open"
                  /\ fWorker' = "select"
                  /\ mainPc' = "serving"
                  /\ UNCHANGED <<kQuitChan, kAtClose, closing, closeCalls>>
             ELSE /\ UNCHANGED <<file, fWorker>>
                  /\ NewLoggerCleanup
    /\ UNCHANGED <<auxVars, bufferSize, producer, kLogChan, kWorker, kMsg, kErrWorker,
                   kDiag, kOut, fLogChan, fQuitChan, fRec, fOut, fAtClose,
                   logVars, caIdx, closeRet, resClose, closeAllCalls, closeAllRet,
                   serverDone>>

-----------------------------------------------------------------------------
(* The main goroutine: serving and shutdown *)

\* main's call of server.RunServer returns.  A nil result lets main return,
\* which runs the deferred CloseAll; an error goes to log.Fatal, which ends
\* the process with os.Exit, and os.Exit runs no deferred function
RunServerReturns ==
    /\ mainPc = "serving"
    /\ serverDone' = TRUE
    /\ \E e \in {Nil, Err} :
          IF e = Nil
          THEN /\ mainPc' = "closeAll"
               /\ closeAllCalls' = closeAllCalls + 1
               /\ caIdx' = 1
          ELSE /\ mainPc' = "fatalServer"
               /\ UNCHANGED <<closeAllCalls, caIdx>>
    /\ UNCHANGED <<auxVars, bufferSize, kafkaVars, fileVars, logVars, closing, closeCalls,
                   closeRet, resClose, closeAllRet>>

\* Faulty variant of CloseAllAfter: the loop ends at the first failing Close
CloseAllStopsAtError(i, err) == IF err = Nil THEN i + 1 ELSE Len(Handlers) + 1

\* CloseAll's loop after child i's Close returned err: the result is dropped
\* and the loop goes to the next child
CloseAllAfter(i, err) == i + 1

\* what CloseAll hands back for the children's results rs: it has no result
CloseAllResult(rs) == Nil

\* CloseAll reaches child caIdx and calls its Close, up to the wait in it
CloseAllStep ==
    /\ mainPc = "closeAll"
    /\ closing = "none"
    /\ caIdx \in 1..Len(Handlers)
    /\ LET h == Handlers[caIdx]
       IN  CASE h = "kafka" ->
                  /\ KafkaCloseSignal("closeAll")
                  /\ UNCHANGED <<fQuitChan, fAtClose, closeRet, caIdx>>
             [] h = "file" ->
                  /\ FileCloseSignal("closeAll")
                  /\ UNCHANGED <<kQuitChan, kAtClose, closeRet, caIdx>>
             [] h = "stdout" ->
                  /\ closeCalls' = [closeCalls EXCEPT !["stdout"] = @ + 1]
                  /\ closeRet' = [closeRet EXCEPT !["stdout"] = Nil]
                  /\ caIdx' = CloseAllAfter(caIdx, Nil)
                  /\ UNCHANGED <<mainPc, closing, kQuitChan, kAtClose, fQuitChan,
                                 fAtClose>>
    /\ UNCHANGED <<auxVars, bufferSize, producer, kLogChan, kWorker, kMsg, kErrWorker, kDiag,
                   kOut, fDir, file, fLogChan, fWorker, fRec, fOut, logVars,
                   resClose, closeAllCalls, closeAllRet, serverDone>>

\* Faulty variant of KafkaCloseResult: the producer's error is swallowed
KafkaCloseResultSwallows(perr) == Nil

\* the result of KafkaHandler.Close when producer.Close returned perr
KafkaCloseResult(perr) == IF perr # Nil THEN Err ELSE Nil

\* the result of FileHandler.Close when file.Close returned ferr
FileCloseResult(ferr) == ferr

\* the caller of a sink's Close goes on once Close has returned err
CloseReturns(err) ==
    IF mainPc = "newLoggerCleanup"
    THEN /\ mainPc' = "fatalLogger"
         /\ UNCHANGED caIdx
    ELSE /\ caIdx' = CloseAllAfter(caIdx, err)
         /\ UNCHANGED mainPc

\* Faulty variant of KafkaWaitGroupDone: only the error worker is in the group
KafkaWaitsErrWorkerOnly == kErrWorker = "done"

\* k.wg.Wait() returns: both goroutines NewKafkaHandler added to the group
\* have called wg.Done, which they defer to their return
KafkaWaitGroupDone == kWorker = "done" /\ kErrWorker = "done"

\* Faulty variant of FileWaitGroupDone: Close does not wait for the worker
FileCloseDoesNotWait == TRUE

\* f.wg.Wait() returns: the worker has returned
FileWaitGroupDone == fWorker = "done"

\* KafkaHandler.Close after close(quitChan): wg.Wait returns once both workers
\* have exited, then the producer is closed (it is closed also when its Close
\* reports an error)
KafkaCloseJoin ==
    /\ Alive
    /\ closing = "kafka"
    /\ KafkaWaitGroupDone
    /\ \E e \in {Nil, Err} :
          /\ producer' = "closed"
          /\ resClose' = [resClose EXCEPT !["kafka"] = e]
          /\ closeRet' = [closeRet EXCEPT !["kafka"] = KafkaCloseResult(e)]
          /\ CloseReturns(KafkaCloseResult(e))
    /\ closing' = "none"
    /\ UNCHANGED <<auxVars, bufferSize, kLogChan, kQuitChan, kWorker, kMsg, kErrWorker,
                   kDiag, kOut, kAtClose, fileVars, logVars, closeCalls,
                   closeAllCalls, closeAllRet, serverDone>>

\* FileHandler.Close after close(quitChan): wg.Wait, then file.Close
FileCloseJoin ==
    /\ Alive
    /\ closing = "file"
    /\ FileWaitGroupDone
    /\ \E e \in {Nil, Err} :
          /\ file' = "closed"
          /\ resClose' = [resClose EXCEPT !["file"] = e]
          /\ closeRet' = [closeRet EXCEPT !["file"] = FileCloseResult(e)]
          /\ CloseReturns(FileCloseResult(e))
    /\ closing' = "none"
    /\ UNCHANGED <<auxVars, bufferSize, kafkaVars, fDir, fLogChan, fQuitChan, fWorker, fRec,
                   fOut, fAtClose, logVars, closeCalls, closeAllCalls, closeAllRet,
                   serverDone>>

\* CloseAll's loop is over: the deferred function and main return
CloseAllReturn ==
    /\ mainPc = "closeAll"
    /\ closing = "none"
    /\ caIdx > Len(Handlers)
    /\ mainPc' = "returned"
    /\ closeAllRet' = CloseAllResult(closeRet)
    /\ UNCHANGED <<auxVars, bufferSize, kafkaVars, fileVars, logVars, closing, caIdx,
                   closeCalls, closeRet, resClose, closeAllCalls, serverDone>>

-----------------------------------------------------------------------------
(* The worker goroutines *)

\* Faulty variant of ChanRecv: the newest record is taken
ChanRecvNewest(ch) == [rec |-> ch[Len(ch)], ch |-> SubSeq(ch, 1, Len(ch) - 1)]

\* Faulty variant of ChanRecv: the record is read and stays in the channel
ChanRecvPeeks(ch) == [rec |-> Head(ch), ch |-> ch]

\* record := <-logChan on a non-empty channel: the oldest record leaves it
ChanRecv(ch) == [rec |-> Head(ch), ch |-> Tail(ch)]

\* Faulty variant of WorkerExit: the worker flushes the queue before it returns
WorkerExitDrains(ch) == ch

\* the records processLogs still handles when it takes the case <-quitChan:
\* none, it returns at once
WorkerExit(ch) == <<>>

\* processLogs of KafkaHandler takes the case <-k.logChan of its select (select
\* may take it also when quitChan is closed) and builds the message
KafkaWorkerRecv ==
    /\ Alive
    /\ kWorker = "select"
    /\ kLogChan # <<>>
    /\ kMsg' = KafkaOutEntry(ChanRecv(kLogChan).rec)
    /\ kLogChan' = ChanRecv(kLogChan).ch
    /\ kWorker' = "send"
    /\ UNCHANGED <<auxVars, mainPc, bufferSize, producer, kQuitChan, kErrWorker, kDiag, kOut,
                   kAtClose, fileVars, logVars, closeVars, serverDone>>

\* k.producer.Input() <- message goes through: the producer took the message
KafkaWorkerSend ==
    /\ Alive
    /\ kWorker = "send"
    /\ kOut' = Append(kOut, kMsg)
    /\ kMsg' = NoRec
    /\ kWorker' = "select"
    /\ UNCHANGED <<auxVars, mainPc, bufferSize, producer, kLogChan, kQuitChan, kErrWorker,
                   kDiag, kAtClose, fileVars, logVars, closeVars, serverDone>>

\* Faulty variant of KafkaWorkerAtSelect: the send to the producer is a case
\* of a select that also listens to quitChan
KafkaWorkerSelectsWhileSending == kWorker \in {"select", "send"}

\* processLogs of KafkaHandler is at its select, the one place where it
\* receives from quitChan; the send to producer.Input() is outside of it
KafkaWorkerAtSelect == kWorker = "select"

\* processLogs of KafkaHandler takes the case <-k.quitChan and returns
KafkaWorkerQuit ==
    /\ Alive
    /\ KafkaWorkerAtSelect
    /\ kQuitChan
    /\ kWorker' = "done"
    /\ kOut' = kOut \o [i \in DOMAIN WorkerExit(kLogChan) |->
                            KafkaOutEntry(WorkerExit(kLogChan)[i])]
    /\ kLogChan' = SubSeq(kLogChan, Len(WorkerExit(kLogChan)) + 1, Len(kLogChan))
    /\ UNCHANGED <<auxVars, mainPc, bufferSize, producer, kQuitChan, kMsg, kErrWorker, kDiag,
                   kAtClose, fileVars, logVars, closeVars, serverDone>>

\* handleProducerErrors receives a delivery error of a message the producer
\* took, and prints it
KafkaErrWorkerRecv ==
    /\ Alive
    /\ kErrWorker = "select"
    /\ producer = "open"
    /\ kDiag < Len(kOut)
    /\ kDiag < MaxDiag
    /\ kDiag' = kDiag + 1
    /\ UNCHANGED <<auxVars, mainPc, bufferSize, producer, kLogChan, kQuitChan, kWorker, kMsg,
                   kErrWorker, kOut, kAtClose, fileVars, logVars, closeVars,
                   serverDone>>

\* handleProducerErrors takes the case <-k.quitChan and returns
KafkaErrWorkerQuit ==
    /\ Alive
    /\ kErrWorker = "select"
    /\ kQuitChan
    /\ kErrWorker' = "done"
    /\ UNCHANGED <<auxVars, mainPc, bufferSize, producer, kLogChan, kQuitChan, kWorker, kMsg,
                   kDiag, kOut, kAtClose, fileVars, logVars, closeVars, serverDone>>

\* processLogs of FileHandler takes the case <-f.logChan
FileWorkerRecv ==
    /\ Alive
    /\ fWorker = "select"
    /\ fLogChan # <<>>
    /\ fRec' = ChanRecv(fLogChan).rec
    /\ fLogChan' = ChanRecv(fLogChan).ch
    /\ fWorker' = "write"
    /\ UNCHANGED <<auxVars, mainPc, bufferSize, kafkaVars, fDir, file, fQuitChan, fOut,
                   fAtClose, logVars, closeVars, serverDone>>

\* processLogs of FileHandler formats the record and issues the write; the
\* result of file.Write is not looked at
FileWorkerWrite ==
    /\ Alive
    /\ fWorker = "write"
    /\ fOut' = Append(fOut, FileOutEntry(fRec))
    /\ fRec' = NoRec
    /\ fWorker' = "select"
    /\ UNCHANGED <<auxVars, mainPc, bufferSize, kafkaVars, fDir, file, fLogChan, fQuitChan,
                   fAtClose, logVars, closeVars, serverDone>>

\* processLogs of FileHandler takes the case <-f.quitChan and returns
FileWorkerQuit ==
    /\ Alive
    /\ fWorker = "select"
    /\ fQuitChan
    /\ fWorker' = "done"
    /\ fOut' = fOut \o [i \in DOMAIN WorkerExit(fLogChan) |->
                            FileOutEntry(WorkerExit(fLogChan)[i])]
    /\ fLogChan' = SubSeq(fLogChan, Len(WorkerExit(fLogChan)) + 1, Len(fLogChan))
    /\ UNCHANGED <<auxVars, mainPc, bufferSize, kafkaVars, fDir, file, fQuitChan, fRec,
                   fAtClose, logVars, closeVars, serverDone>>

-----------------------------------------------------------------------------
(* The request goroutines: a log call reaches MultiHandler.Handle *)

\* the entry a sink's Handle adds to its history: the record's id, whether it
\* was enqueued, and the result
HistEntry(r, sent) == [id |-> r.id, ok |-> sent.ok, ret |-> Nil]

\* KafkaHandler.Handle
KafkaHandle(r) ==
    LET sent == TrySend(kLogChan, bufferSize, kQuitChan, r)
    IN  /\ kLogChan' = sent.ch
        /\ kHist' = Append(kHist, HistEntry(r, sent))

\* FileHandler.Handle
FileHandle(r) ==
    LET sent == TrySend(fLogChan, bufferSize, fQuitChan, r)
    IN  /\ fLogChan' = sent.ch
        /\ fHist' = Append(fHist, HistEntry(r, sent))

\* the result of child h's Handle; werr: the write to stdout fails
ChildResult(h, werr) == IF h = "stdout" /\ werr THEN Err ELSE Nil

\* MultiHandler.Handle for a new record; werr: the write StdoutHandler.Handle
\* issues fails, and once a write to the stream has failed the later ones fail
MultiHandle ==
    /\ mainPc \in {"serving", "closeAll"}
    /\ nextId <= MaxRecords
    /\ \E lvl \in Levels, m \in Messages,
          werr \in IF stdoutBroken THEN {TRUE} ELSE BOOLEAN :
          LET r == [id |-> nextId, time |-> nextId, level |-> lvl, msg |-> m]
              targets == HandleTargets(Handlers)
          IN  /\ IF Has(targets, "kafka") THEN KafkaHandle(r)
                 ELSE UNCHANGED <<kLogChan, kHist>>
              /\ IF Has(targets, "file") THEN FileHandle(r)
                 ELSE UNCHANGED <<fLogChan, fHist>>
              /\ sOut' = IF Has(targets, "stdout") /\ ~werr
                         THEN Append(sOut, [id |-> r.id, line |-> StdoutLine(r)])
                         ELSE sOut
              /\ calls' = Append(calls,
                    [rec |-> r, children |-> targets,
                     ret |-> FirstErr([i \in DOMAIN targets |->
                                          ChildResult(targets[i], werr)])])
          /\ stdoutBroken' = werr
    /\ nextId' = nextId + 1
    /\ UNCHANGED <<auxVars, mainPc, bufferSize, producer, kQuitChan, kWorker, kMsg, kErrWorker,
                   kDiag, kOut, kAtClose, fDir, file, fQuitChan, fWorker, fRec, fOut,
                   fAtClose, closeVars, serverDone>>

-----------------------------------------------------------------------------
(* Specifications *)

Next ==
    \/ LoadConfig
    \/ NewKafkaHandler
    \/ NewFileHandler
    \/ RunServerReturns
    \/ CloseAllStep
    \/ KafkaCloseJoin
    \/ FileCloseJoin
    \/ CloseAllReturn
    \/ KafkaWorkerRecv
    \/ KafkaWorkerSend
    \/ KafkaWorkerQuit
    \/ KafkaErrWorkerRecv
    \/ KafkaErrWorkerQuit
    \/ FileWorkerRecv
    \/ FileWorkerWrite
    \/ FileWorkerQuit
    \/ MultiHandle

Spec == Init /\ [][Next]_vars

\* Every goroutine that can take a step is eventually scheduled, and the
\* producer takes the message it is offered: the case in which each worker
\* honours its stop signal
FairSpec ==
    /\ Spec
    /\ WF_vars(CloseAllStep)
    /\ WF_vars(KafkaCloseJoin)
    /\ WF_vars(FileCloseJoin)
    /\ WF_vars(CloseAllReturn)
    /\ WF_vars(KafkaWorkerRecv)
    /\ WF_vars(KafkaWorkerSend)
    /\ WF_vars(KafkaWorkerQuit)
    /\ WF_vars(KafkaErrWorkerQuit)
    /\ WF_vars(FileWorkerRecv)
    /\ WF_vars(FileWorkerWrite)
    /\ WF_vars(FileWorkerQuit)

-----------------------------------------------------------------------------
(* Properties *)

\* the number of entries of history h for record number id
CountOf(h, id) == Cardinality({i \in DOMAIN h : h[i].id = id})

\* a step in which Handle of the sink with history h is called
HandleStep(h) == Len(h') = Len(h) + 1

\* what the sinks emit for the records handed to MultiHandler.Handle so far
FileSubmitted == [i \in DOMAIN calls |-> FileOutEntry(calls[i].rec)]
KafkaSubmitted == [i \in DOMAIN calls |-> KafkaOutEntry(calls[i].rec)]

NoOverflow(h) == \A i \in DOMAIN h : h[i].ok

\* the numbers of the records a sink has emitted or is about to emit
FileEmitted == SeqToSet(Ids(fOut)) \cup (IF fRec = NoRec THEN {} ELSE {fRec.id})
KafkaEmitted == SeqToSet(Ids(kOut)) \cup (IF kMsg = NoRec THEN {} ELSE {kMsg.id})

C2_FifoWithoutOverflow ==
    /\ NoOverflow(fHist) => IsPrefix(fOut, FileSubmitted)
    /\ NoOverflow(kHist) => IsPrefix(kOut, KafkaSubmitted)

\* C2 witness: both workers emitted several records and nothing overflowed
C2_Witness ==
    /\ NoOverflow(fHist) /\ NoOverflow(kHist)
    /\ Len(fOut) >= 2 /\ Len(kOut) >= 2
    /\ Len(fHist) = MaxRecords

\* C3: a Handle call that finds bufferSize records in the queue returns nil
\* and leaves the queue as it was; it can always be taken (it does not wait);
\* and a record refused that way is never emitted by that sink.
C3_FullQueueDrops ==
    /\ [][/\ (HandleStep(fHist) /\ Len(fLogChan) = bufferSize) =>
                /\ fLogChan' = fLogChan
                /\ ~fHist'[Len(fHist')].ok
                /\ fHist'[Len(fHist')].ret = Nil
          /\ (HandleStep(kHist) /\ Len(kLogChan) = bufferSize) =>
                /\ kLogChan' = kLogChan
                /\ ~kHist'[Len(kHist')].ok
                /\ kHist'[Len(kHist')].ret = Nil]_vars
    /\ [](\A i \in DOMAIN fHist :
             ~fHist[i].ok => fHist[i].id \notin FileEmitted \cup SeqToSet(Ids(fLogChan)))
    /\ [](\A i \in DOMAIN kHist :
             ~kHist[i].ok => kHist[i].id \notin KafkaEmitted \cup SeqToSet(Ids(kLogChan)))
    /\ []((mainPc \in {"serving", "closeAll"} /\ nextId <= MaxRecords)
             => ENABLED MultiHandle)

\* C3 witness: the file sink refused a record and went on emitting others
C3_Witness ==
    /\ \E i \in DOMAIN fHist : ~fHist[i].ok
    /\ \E i \in DOMAIN kHist : ~kHist[i].ok
    /\ Len(fOut) >= 2
    /\ Len(kOut) >= 2

\* the state right after three records were submitted to a sink of buffer size
\* 2 before its worker took any of them
FileBurst ==
    /\ bufferSize = 2
    /\ Len(fHist) >= 3
    /\ fOut = <<>> /\ fRec = NoRec /\ fWorker = "select"
KafkaBurst ==
    /\ bufferSize = 2
    /\ Len(kHist) >= 3
    /\ kOut = <<>> /\ kMsg = NoRec /\ kWorker = "select"

\* of the first three records exactly the third was refused
ThirdDropped(h) == Len(h) >= 3 /\ h[1].ok /\ h[2].ok /\ ~h[3].ok

\* out begins with the first two records submitted, as far as it goes
FirstTwoInOrder(out, submitted) ==
    \A i \in DOMAIN out : i <= 2 => out[i] = submitted[i]

\* C4: with buffer size 2, three records submitted back-to-back before the
\* worker takes any: the first two are enqueued and the third is refused; from
\* then on the sink's output begins with r1 then r2 and never holds r3; and
\* r1 and r2 are emitted, unless the sink is told to stop or the process ends
\* before the worker got to them.
C4_BurstDropsThird ==
    /\ [](FileBurst => ThirdDropped(fHist) /\ Ids(fLogChan) = <<fHist[1].id, fHist[2].id>>)
    /\ [](KafkaBurst => ThirdDropped(kHist) /\ Ids(kLogChan) = <<kHist[1].id, kHist[2].id>>)
    /\ []((bufferSize = 2 /\ ThirdDropped(fHist)) =>
             /\ FirstTwoInOrder(fOut, FileSubmitted)
             /\ fHist[3].id \notin FileEmitted)
    /\ []((bufferSize = 2 /\ ThirdDropped(kHist)) =>
             /\ FirstTwoInOrder(kOut, KafkaSubmitted)
             /\ kHist[3].id \notin KafkaEmitted)
    /\ (FileBurst ~> (Len(fOut) >= 2 \/ fQuitChan \/ ~Alive))
    /\ (KafkaBurst ~> (Len(kOut) >= 2 \/ kQuitChan \/ ~Alive))

\* C4 witness: the burst happened on both sinks and the two records that were
\* enqueued have been emitted
C4_Witness ==
    /\ bufferSize = 2
    /\ ThirdDropped(fHist) /\ ThirdDropped(kHist)
    /\ Len(fOut) = 2 /\ Len(kOut) = 2
    /\ ~fQuitChan /\ ~kQuitChan

\* C5 as stated: no record that was in a sink's queue when Close closed
\* quitChan is emitted afterwards (a record the worker had already taken was
\* not in the queue any more).
C5_QueuedAtCloseNeverEmitted ==
    /\ fAtClose \cap FileEmitted = {}
    /\ kAtClose \cap KafkaEmitted = {}

\* C5 amended: the worker leaves without draining.  The step in which it
\* takes the stop case emits nothing and leaves the queue as it is, and once
\* it has exited nothing more is emitted, so what is then in the queue is
\* lost; until that step it may still take and emit queued records.
C5_WorkerExitsWithoutDrain ==
    [][/\ fWorker' = "done" =>
             /\ fOut' = fOut
             /\ IsPrefix(fLogChan, fLogChan')
       /\ kWorker' = "done" =>
             /\ kOut' = kOut
             /\ IsPrefix(kLogChan, kLogChan')]_vars

\* C5 witness: both Close calls returned while records that were queued at the
\* stop signal are still in the queues, and another one of them was emitted
C5_Witness ==
    /\ producer = "closed" /\ file = "closed"
    /\ fAtClose \cap SeqToSet(Ids(fLogChan)) # {}
    /\ kAtClose \cap SeqToSet(Ids(kLogChan)) # {}
    /\ fAtClose \cap FileEmitted # {}

AllSinks == {"kafka", "file", "stdout"}

\* C6: when CloseAll has returned, Close was called exactly once on each of
\* the three children, whichever of the Close calls failed; and a CloseAll
\* that was started returns, the workers being scheduled and the producer
\* taking the message it is offered.
C6_CloseAllClosesEveryChild ==
    /\ [](mainPc = "returned" => \A h \in AllSinks : closeCalls[h] = 1)
    /\ [](\A h \in AllSinks : closeCalls[h] <= 1)
    /\ (mainPc = "closeAll" ~> mainPc = "returned")

\* C6 witness: CloseAll returned after the first Close failed and the second
\* succeeded
C6_Witness ==
    /\ mainPc = "returned"
    /\ closeRet["kafka"] = Err
    /\ closeRet["file"] = Nil
    /\ closeRet["stdout"] = Nil

\* C7 as stated: a failing resource close is reported by Close and by CloseAll.
C7_CloseAllReportsError ==
    (mainPc = "returned" /\ \E h \in {"kafka", "file"} : resClose[h] = Err)
        => closeAllRet = Err

\* C7 amended: a failing resource close is reported by the sink's Close, and
\* only there: CloseAll has no result and hands nothing to its caller, and it
\* goes on to close the remaining sinks.
C7_CloseErrorStopsAtClose ==
    /\ \A h \in {"kafka", "file"} :
          closeRet[h] # "none" => (closeRet[h] = Err <=> resClose[h] = Err)
    /\ mainPc = "returned" =>
          /\ closeAllRet = Nil
          /\ producer = "closed"
          /\ file = "closed"
          /\ \A h \in AllSinks : closeRet[h] # "none"

\* C7 witness: CloseAll returned after the producer failed to close
C7_Witness ==
    /\ mainPc = "returned"
    /\ resClose["kafka"] = Err
    /\ closeRet["kafka"] = Err
    /\ file = "closed"

\* C8: when NewLogger has returned an error, no producer and no file is open
\* and no worker runs; if it was NewKafkaHandler that failed, nothing of the
\* file sink was made; if it was NewFileHandler, the Kafka handler was closed
\* once, with both workers gone.
C8_NewLoggerErrorLeavesNothing ==
    mainPc = "fatalLogger" =>
        /\ producer \in {"none", "closed"}
        /\ file = "none"
        /\ kWorker \in {"none", "done"}
        /\ kErrWorker \in {"none", "done"}
        /\ fWorker = "none"
        /\ producer = "none" => (~fDir /\ closeCalls["kafka"] = 0)
        /\ producer = "closed" =>
              /\ closeCalls["kafka"] = 1
              /\ kWorker = "done" /\ kErrWorker = "done"

\* C8 witness: NewFileHandler failed at opening the file, the directory made
C8_Witness ==
    /\ mainPc = "fatalLogger"
    /\ producer = "closed"
    /\ fDir

\* C9: on every way the process ends after the logger was made, CloseAll was
\* called exactly once, and never before RunServer returned.
C9_CloseAllOnEveryExit ==
    /\ mainPc \in {"returned", "fatalServer"} => closeAllCalls = 1
    /\ closeAllCalls <= 1
    /\ closeAllCalls > 0 => serverDone

\* C10 as stated: once Close has closed a sink's quitChan, a Handle call
\* leaves the sink's queue unchanged.
C10_NoAdmissionAfterClose ==
    [][/\ (HandleStep(fHist) /\ fQuitChan) => fLogChan' = fLogChan
       /\ (HandleStep(kHist) /\ kQuitChan) => kLogChan' = kLogChan]_vars

\* C10 amended: Close does not close the queue.  A Handle call after Close
\* enqueues its record exactly when fewer than bufferSize records are
\* pending, as before Close; once the worker has exited nothing leaves the
\* queue and nothing is emitted, so a record admitted then is never emitted.
C10_AdmissionIgnoresClose ==
    [][/\ (HandleStep(fHist) /\ fQuitChan) =>
             IF Len(fLogChan) < bufferSize
             THEN Ids(fLogChan') = Append(Ids(fLogChan), fHist'[Len(fHist')].id)
             ELSE fLogChan' = fLogChan
       /\ (HandleStep(kHist) /\ kQuitChan) =>
             IF Len(kLogChan) < bufferSize
             THEN Ids(kLogChan') = Append(Ids(kLogChan), kHist'[Len(kHist')].id)
             ELSE kLogChan' = kLogChan
       /\ fWorker = "done" => (fOut' = fOut /\ IsPrefix(fLogChan, fLogChan'))
       /\ kWorker = "done" => (kOut' = kOut /\ IsPrefix(kLogChan, kLogChan'))]_vars

\* C10 witness: both sinks are closed and each queue holds a record that was
\* not in it when quitChan was closed
C10_Witness ==
    /\ producer = "closed" /\ file = "closed"
    /\ SeqToSet(Ids(fLogChan)) \ fAtClose # {}
    /\ SeqToSet(Ids(kLogChan)) \ kAtClose # {}

\* C11: KafkaHandler.Close closes the producer only after both of the sink's
\* workers have exited, so the producer takes no message once it is closed
\* (nor is one in flight when it is closed), and Close returns an error
\* exactly when closing the producer failed.
C11_ProducerClosedAfterWorkers ==
    /\ [](producer = "closed" =>
             kWorker = "done" /\ kErrWorker = "done" /\ kMsg = NoRec)
    /\ [][producer # "open" => kOut' = kOut]_vars
    /\ [](closeRet["kafka"] # "none" <=> producer = "closed")
    /\ [](closeRet["kafka"] = Err <=> resClose["kafka"] = Err)

\* C11 witness: the producer was closed with an error after it had taken a
\* message, and a record handled later stays in the queue
C11_Witness ==
    /\ producer = "closed"
    /\ closeRet["kafka"] = Err
    /\ kOut # <<>>
    /\ SeqToSet(Ids(kLogChan)) \ kAtClose # {}

\* C12: the writes to the file are issued by the worker of FileHandler alone,
\* one per dequeued record, while the file is open; the file is closed only
\* once that worker has exited, so no write is issued after the close.
C12_FileWrittenOnlyWhileOpen ==
    /\ [](file = "closed" => fWorker = "done" /\ fRec = NoRec)
    /\ [][fOut' # fOut =>
             /\ file = "open" /\ file' = "open"
             /\ fWorker = "write"
             /\ fOut' = Append(fOut, FileOutEntry(fRec))]_vars
    /\ [][file' # file /\ file = "open" => fWorker = "done" /\ fOut' = fOut]_vars

\* C12 witness: the file was closed after a write, and Handle was called on
\* the sink after the close
C12_Witness ==
    /\ file = "closed"
    /\ fOut # <<>>
    /\ SeqToSet(Ids(fLogChan)) \ fAtClose # {}

-----------------------------------------------------------------------------
(* MultiHandler and LoadConfig called on their own, on arguments drawn from *)
(* bounded sets                                                             *)

\* largest number of children of a dispatcher
MaxChildren == 3
\* largest length of the value of LOG_BUFFER_SIZE
MaxRawLen == 2

\* the sequences over S of length at most n
SeqsUpTo(S, n) == UNION {[1..k -> S] : k \in 0..n}

\* the errors a child's Handle returns
ChildErrors == {"errA", "errB"}

\* the characters of the value of LOG_BUFFER_SIZE
RawChars == {"0", "1", "2", "-", "+", "a"}

\* the handlers of this package
Sinks == {"kafka", "file", "stdout"}

\* WithAttrs of KafkaHandler, FileHandler and StdoutHandler: each returns its
\* receiver
ChildWithAttrs(h, attrs) == h

\* WithGroup of KafkaHandler, FileHandler and StdoutHandler: each returns its
\* receiver
ChildWithGroup(h, name) == h

\* Faulty variant of MultiWithAttrs: the new slice is made with the length of
\* the list and the children are appended to it
MultiWithAttrsAppends(hs, attrs) ==
    [m |-> hs,
     ret |-> [i \in DOMAIN hs |-> "nilHandler"]
                \o [i \in DOMAIN hs |-> ChildWithAttrs(hs[i], attrs)]]

\* MultiHandler.WithAttrs on a dispatcher with children hs: m is the child
\* list of the receiver after the call, ret the child list of the result
MultiWithAttrs(hs, attrs) ==
    [m |-> hs, ret |-> [i \in DOMAIN hs |-> ChildWithAttrs(hs[i], attrs)]]

\* MultiHandler.WithGroup on a dispatcher with children hs
MultiWithGroup(hs, name) ==
    [m |-> hs, ret |-> [i \in DOMAIN hs |-> ChildWithGroup(hs[i], name)]]

\* MultiHandler.Handle on a dispatcher whose children's Handle return rs
HandleCall ==
    /\ \E rs \in SeqsUpTo({Nil} \cup ChildErrors, MaxChildren) :
          /\ fn' = "Handle"
          /\ fnArg' = rs
          /\ fnRes' = FirstErr(rs)
    /\ UNCHANGED <<procVars, svcVars>>

\* MultiHandler.WithAttrs on a dispatcher with children hs
WithAttrsCall ==
    /\ \E hs \in SeqsUpTo(Sinks, MaxChildren), attrs \in {<<>>, <<"attr">>} :
          /\ fn' = "WithAttrs"
          /\ fnArg' = [handlers |-> hs, with |-> attrs]
          /\ fnRes' = MultiWithAttrs(hs, attrs)
    /\ UNCHANGED <<procVars, svcVars>>

\* MultiHandler.WithGroup on a dispatcher with children hs
WithGroupCall ==
    /\ \E hs \in SeqsUpTo(Sinks, MaxChildren), name \in {"", "group"} :
          /\ fn' = "WithGroup"
          /\ fnArg' = [handlers |-> hs, with |-> name]
          /\ fnRes' = MultiWithGroup(hs, name)
    /\ UNCHANGED <<procVars, svcVars>>

\* config.LoadConfig; otherOk: the .env file loads and the other required
\* variables are set, raw: the value of LOG_BUFFER_SIZE
LoadConfigCall ==
    /\ \E otherOk \in BOOLEAN, raw \in SeqsUpTo(RawChars, MaxRawLen) :
          LET p == ParseLogBufferSize(raw)
          IN  /\ fn' = "LoadConfig"
              /\ fnArg' = [otherOk |-> otherOk, raw |-> raw]
              /\ fnRes' = IF ~otherOk \/ p.err
                          THEN [err |-> TRUE, size |-> 0]
                          ELSE [err |-> FALSE, size |-> p.val]
    /\ UNCHANGED <<procVars, svcVars>>

FuncNext ==
    \/ HandleCall
    \/ WithAttrsCall
    \/ WithGroupCall
    \/ LoadConfigCall

FuncSpec == Init /\ [][FuncNext]_vars

\* C13: MultiHandler.Handle returns the error of the failing child that comes
\* first in the list, whatever the later children return, and nil when no
\* child fails.
C13_HandleReturnsFirstError ==
    fn = "Handle" =>
        LET failed == {i \in DOMAIN fnArg : fnArg[i] # Nil}
        IN  IF failed = {} THEN fnRes = Nil
            ELSE \E i \in failed :
                    /\ \A j \in failed : i <= j
                    /\ fnRes = fnArg[i]

\* C13 witness: the second and the third child fail with different errors
C13_Witness ==
    /\ fn = "Handle"
    /\ fnArg = <<Nil, "errB", "errA">>
    /\ fnRes = "errB"

\* C14 as stated: the file line of a record {Info, "x", T} is
\* "[INFO] - <T in RFC3339> - x", and the payload of its message has the
\* members time, level, msg in this order, under the key "log".
C14_OutputWithFieldsInStatedOrder ==
    /\ \A i \in DOMAIN fOut :
          fOut[i].line =
              <<"[", "INFO", "] - ",
                [sec |-> calls[fOut[i].id].rec.time \div TicksPerSec],
                " - ", "x", "\n">>
    /\ \A i \in DOMAIN kOut :
          kOut[i].msg =
              [key |-> "log",
               value |-> << <<"time", [sec |-> calls[kOut[i].id].rec.time
                                                   \div TicksPerSec]>>,
                            <<"level", "INFO">>,
                            <<"msg", "x">> >>]

\* C14 amended: the file line is as stated, and the payload has the three
\* members with the stated values in the sorted order of their keys, level,
\* msg, time, under the key "log".
C14_OutputWithSortedFields ==
    /\ \A i \in DOMAIN fOut :
          fOut[i].line =
              <<"[", "INFO", "] - ",
                [sec |-> calls[fOut[i].id].rec.time \div TicksPerSec],
                " - ", "x", "\n">>
    /\ \A i \in DOMAIN kOut :
          kOut[i].msg =
              [key |-> "log",
               value |-> << <<"level", "INFO">>,
                            <<"msg", "x">>,
                            <<"time", [sec |-> calls[kOut[i].id].rec.time
                                                   \div TicksPerSec]>> >>]

\* C14 witness: both sinks have emitted two records of different seconds
C14_Witness ==
    /\ Len(fOut) >= 2 /\ fOut[1].line # fOut[2].line
    /\ Len(kOut) >= 2 /\ kOut[1].msg # kOut[2].msg

\* C17: when everything else LoadConfig needs is there, it succeeds for each
\* value of LOG_BUFFER_SIZE, with the value as the buffer size when it is a
\* positive integer and with 100 otherwise, the empty value included.
C17_BufferSizeFallsBackTo100 ==
    (fn = "LoadConfig" /\ fnArg.otherOk) =>
        LET a == Atoi(fnArg.raw)
        IN  /\ ~fnRes.err
            /\ fnRes.size = IF ~a.err /\ a.val > 0 THEN a.val ELSE 100

\* C18: WithAttrs and WithGroup of MultiHandler return a dispatcher with as
\* many children as the receiver, child i being what the same method of the
\* receiver's child i returns, and the receiver's list is as it was.
C18_WithReturnsNewDispatcher ==
    /\ fn = "WithAttrs" =>
          /\ Len(fnRes.ret) = Len(fnArg.handlers)
          /\ \A i \in DOMAIN fnArg.handlers :
                fnRes.ret[i] = ChildWithAttrs(fnArg.handlers[i], fnArg.with)
          /\ fnRes.m = fnArg.handlers
    /\ fn = "WithGroup" =>
          /\ Len(fnRes.ret) = Len(fnArg.handlers)
          /\ \A i \in DOMAIN fnArg.handlers :
                fnRes.ret[i] = ChildWithGroup(fnArg.handlers[i], fnArg.with)
          /\ fnRes.m = fnArg.handlers

\* C18 witness: WithAttrs was called on the dispatcher NewLogger builds
C18_Witness ==
    /\ fn = "WithAttrs"
    /\ fnArg.handlers = Handlers
    /\ fnRes.ret = Handlers

\* C19: while the worker of KafkaHandler is blocked in its send to the
\* producer, a Handle call can be made and returns nil in one step, in which
\* the producer takes nothing and the worker stays blocked: the record is
\* appended to the queue when fewer than bufferSize records are pending and
\* is dropped otherwise.
C19_HandleDoesNotWaitForProducer ==
    /\ []((kWorker = "send" /\ mainPc \in {"serving", "closeAll"}
              /\ nextId <= MaxRecords) => ENABLED MultiHandle)
    /\ [][(kWorker = "send" /\ HandleStep(kHist)) =>
             LET e == kHist'[Len(kHist')]
                 r == calls'[Len(calls')].rec
             IN  /\ kWorker' = "send" /\ kMsg' = kMsg /\ kOut' = kOut
                 /\ e.id = r.id /\ e.ret = Nil
                 /\ IF Len(kLogChan) < bufferSize
                    THEN e.ok /\ kLogChan' = Append(kLogChan, r)
                    ELSE ~e.ok /\ kLogChan' = kLogChan]_vars

\* C19 witness: the producer has taken nothing, the worker is blocked on the
\* first record, the second was accepted and fills the queue, the third was
\* dropped
C19_Witness ==
    /\ kWorker = "send" /\ kOut = <<>>
    /\ bufferSize = 1
    /\ Len(kHist) = 3
    /\ kHist[2].ok /\ ~kHist[3].ok
    /\ Len(kLogChan) = 1

\* C20: when Close of KafkaHandler has closed quitChan while the worker is
\* blocked in its send to the producer, then as long as the producer does not
\* take the message the worker stays blocked and cannot take the stop case,
\* Close cannot return, and CloseAll stays at the Kafka handler: the file sink
\* is not closed and CloseAll does not return.  No step ends the wait.
C20_CloseWaitsForBlockedWorker ==
    /\ []((closing = "kafka" /\ kWorker = "send") =>
             /\ ~ENABLED KafkaCloseJoin
             /\ ~ENABLED KafkaWorkerQuit
             /\ ~ENABLED CloseAllStep
             /\ ~ENABLED CloseAllReturn
             /\ mainPc = "closeAll" /\ Handlers[caIdx] = "kafka"
             /\ producer = "open" /\ file = "open" /\ ~fQuitChan
             /\ closeCalls["file"] = 0 /\ closeCalls["stdout"] = 0)
    /\ [][(closing = "kafka" /\ kWorker = "send" /\ kOut' = kOut) =>
             /\ closing' = "kafka" /\ kWorker' = "send"
             /\ mainPc' = mainPc /\ caIdx' = caIdx
             /\ closeRet' = closeRet]_vars

\* C20 witness: Close of KafkaHandler waits, the error worker has exited, the
\* record worker is blocked in its send
C20_Witness ==
    /\ closing = "kafka"
    /\ kQuitChan
    /\ kErrWorker = "done"
    /\ kWorker = "send"
    /\ closeRet["kafka"] = "none"

-----------------------------------------------------------------------------
(* WatchlistService over PostgresRepository: each request is a goroutine,   *)
(* each statement sent to the database is one step                          *)

Methods == {"AddToWatchlist", "RemoveFromWatchlist", "GetWatchlist",
            "CheckInWatchlist"}

\* the ids a request carries: zero is not valid
MediaIds == 0..MaxMedia
UserIds == {0, 1}

\* ctx.Err() of a context whose Done channel is closed
CtxErrors == {"context canceled", "context deadline exceeded"}

\* an error of the database driver
DbErr == "db error"

\* one record given to the logger
LogRec(level, text, ids, err) ==
    [level |-> level, text |-> text, ids |-> ids, err |-> err]

\* Faulty variant of CheckContextCancelled: the context is not looked at
CheckContextIgnored(c, method) == [err |-> Nil, logs |-> <<>>]

\* WatchlistService.checkContextCancelled on a context in state c
CheckContextCancelled(c, method) ==
    IF c # "live"
    THEN [err |-> c,
          logs |-> <<LogRec("Error", <<method, " operation canceled">>, <<>>, c)>>]
    ELSE [err |-> Nil, logs |-> <<>>]

\* the check of the request's ids in the service methods
InvalidIds(method, media, user) ==
    IF method = "GetWatchlist" THEN user <= 0 ELSE media <= 0 \/ user <= 0

\* Faulty variant of CountPositive: one row is not enough
CountAboveOne(count) == count > 1

\* the result of CheckInWatchlist for the count the statement gave
CountPositive(count) == count > 0

\* the rows matching media_id = media AND user_id = user
Matching(rs, media, user) ==
    {i \in DOMAIN rs : rs[i].media = media /\ rs[i].user = user}

RECURSIVE Without(_, _, _)
\* the table after DELETE ... WHERE media_id = media AND user_id = user
Without(rs, media, user) ==
    IF rs = <<>> THEN <<>>
    ELSE IF Head(rs).media = media /\ Head(rs).user = user
         THEN Without(Tail(rs), media, user)
         ELSE <<Head(rs)>> \o Without(Tail(rs), media, user)

RECURSIVE OfUser(_, _)
\* the result of SELECT ... WHERE user_id = user
OfUser(rs, user) ==
    IF rs = <<>> THEN <<>>
    ELSE IF Head(rs).user = user
         THEN <<Head(rs)>> \o OfUser(Tail(rs), user)
         ELSE OfUser(Tail(rs), user)

\* what a service method does with the result of its repository call: rerr
\* the error, val the value
ServiceReturn(method, media, user, rerr, val) ==
    CASE method = "AddToWatchlist" ->
           IF rerr = Nil
           THEN [logs |-> <<LogRec("Info", "media added to watchlist successfully",
                                   <<media, user>>, Nil)>>,
                 code |-> "OK", resp |-> [Success |-> TRUE]]
           ELSE IF rerr = "ErrDuplicateEntry"
           THEN [logs |-> <<LogRec("Info", "media already in watchlist",
                                   <<media, user>>, Nil)>>,
                 code |-> "OK", resp |-> [Success |-> TRUE]]
           ELSE [logs |-> <<LogRec("Error", "failed to add media to watchlist",
                                   <<media, user>>, rerr)>>,
                 code |-> "Internal", resp |-> rerr]
      [] method = "RemoveFromWatchlist" ->
           IF rerr = Nil
           THEN [logs |-> <<LogRec("Info", "media removed from watchlist successfully",
                                   <<media, user>>, Nil)>>,
                 code |-> "OK", resp |-> [Success |-> TRUE]]
           ELSE IF rerr = "ErrRecordNotFound"
           THEN [logs |-> <<LogRec("Warn", "media not found in watchlist",
                                   <<media, user>>, Nil)>>,
                 code |-> "OK", resp |-> [Success |-> FALSE]]
           ELSE [logs |-> <<LogRec("Error", "failed to remove media from watchlist",
                                   <<media, user>>, rerr)>>,
                 code |-> "Internal", resp |-> rerr]
      [] method = "GetWatchlist" ->
           IF rerr = Nil
           THEN [logs |-> <<LogRec("Info", "watchlist fetched successfully",
                                   <<user>>, Nil)>>,
                 code |-> "OK",
                 resp |-> [Watchlists |->
                              [i \in DOMAIN val |->
                                  [Id |-> val[i].id, MediaId |-> val[i].media,
                                   UserId |-> val[i].user]]]]
           ELSE [logs |-> <<LogRec("Error", "failed to get watchlist",
                                   <<user>>, rerr)>>,
                 code |-> "Internal", resp |-> rerr]
      [] method = "CheckInWatchlist" ->
           IF rerr = Nil
           THEN [logs |-> <<LogRec("Info", "media checked in watchlist",
                                   <<media, user>>, Nil)>>,
                 code |-> "OK", resp |-> [InWatchlist |-> val]]
           ELSE [logs |-> <<LogRec("Error", "failed to check media in watchlist",
                                   <<media, user>>, rerr)>>,
                 code |-> "Internal", resp |-> rerr]

\* request q after its repository call returned (rerr, val), having logged
\* repoLogs: the service method logs and returns
Returned(q, repoLogs, rerr, val) ==
    LET ret == ServiceReturn(q.method, q.media, q.user, rerr, val)
    IN  [q EXCEPT !.pc = "done",
                  !.logs = q.logs \o repoLogs \o ret.logs,
                  !.code = ret.code,
                  !.resp = ret.resp]

\* a method of WatchlistService is called: checkContextCancelled, the check
\* of the ids, and the call of the repository method
ServiceCall(p) ==
    /\ req[p].pc = "idle"
    /\ \E method \in Methods, media \in MediaIds, user \in UserIds,
          c \in {"live"} \cup CtxErrors :
          /\ method = "GetWatchlist" => media = 0
          /\ LET chk == CheckContextCancelled(c, method)
                 q == [req[p] EXCEPT !.method = method, !.media = media,
                                     !.user = user, !.ctx = c, !.atCall = c,
                                     !.seen = rows,
                                     !.overlap = \E o \in Requests \ {p} :
                                                     InFlight(req[o])]
                 called ==
                    IF chk.err # Nil
                    THEN [q EXCEPT !.pc = "done", !.logs = chk.logs,
                                   !.code = "Canceled", !.resp = chk.err]
                    ELSE IF InvalidIds(method, media, user)
                    THEN [q EXCEPT !.pc = "done",
                                   !.logs = <<LogRec("Warn",
                                       IF method = "GetWatchlist"
                                       THEN "invalid user_id: must be a positive integer"
                                       ELSE "invalid media_id or user_id: must be positive integers",
                                       <<>>, Nil)>>,
                                   !.code = "InvalidArgument", !.resp = "invalid ids"]
                    ELSE [q EXCEPT !.pc = CASE method = "CheckInWatchlist" -> "count"
                                            [] method = "GetWatchlist" -> "find"
                                            [] OTHER -> "entry",
                                   !.repoCalls = 1]
             IN  req' = [o \in Requests |->
                            IF o = p THEN called
                            ELSE IF InFlight(called) /\ InFlight(req[o])
                            THEN [req[o] EXCEPT !.overlap = TRUE]
                            ELSE req[o]]
    /\ UNCHANGED <<rows, lastRowId, procVars, fnVars>>

\* the context of a request is cancelled or its deadline passes, at a point
\* after which the repository still looks at it
CtxDone(p) ==
    /\ req[p].pc \in {"entry", "count", "find"}
    /\ req[p].ctx = "live"
    /\ \E c \in CtxErrors : req' = [req EXCEPT ![p].ctx = c]
    /\ UNCHANGED <<rows, lastRowId, procVars, fnVars>>

\* AddToWatchlist and RemoveFromWatchlist of PostgresRepository: the select on
\* ctx.Done() at their entry
RepoEntry(p) ==
    /\ req[p].pc = "entry"
    /\ LET q == req[p]
       IN  req' = [req EXCEPT ![p] =
              IF q.ctx # "live"
              THEN Returned(q, <<LogRec("Error", <<q.method, " operation canceled">>,
                                        <<q.media, q.user>>, q.ctx)>>, q.ctx, Nil)
              ELSE [q EXCEPT !.pc = "count"]]
    /\ UNCHANGED <<rows, lastRowId, procVars, fnVars>>

\* CheckInWatchlist of PostgresRepository, called by the service or by
\* AddToWatchlist / RemoveFromWatchlist, which go on with its result up to
\* their statement; dbOk: the COUNT statement succeeds
RepoCount(p) ==
    /\ req[p].pc = "count"
    /\ \E dbOk \in BOOLEAN :
          LET q == req[p]
              ids == <<q.media, q.user>>
              cerr == IF q.ctx # "live" THEN q.ctx
                      ELSE IF dbOk THEN Nil ELSE DbErr
              clog == IF q.ctx # "live"
                      THEN LogRec("Error", <<"CheckInWatchlist", " operation canceled">>,
                                  ids, q.ctx)
                      ELSE IF dbOk
                      THEN LogRec("Info", "media checked in watchlist", ids, Nil)
                      ELSE LogRec("Error", "failed to check media in watchlist",
                                  ids, DbErr)
              exists == /\ cerr = Nil
                        /\ CountPositive(Cardinality(Matching(rows, q.media, q.user)))
          IN  req' = [req EXCEPT ![p] =
                 CASE q.method = "CheckInWatchlist" ->
                        Returned(q, <<clog>>, cerr, exists)
                   [] q.method = "AddToWatchlist" ->
                        IF cerr # Nil
                        THEN Returned(q, <<clog, LogRec("Error",
                                 "failed to check watchlist existence", ids, cerr)>>,
                                 cerr, Nil)
                        ELSE IF exists
                        THEN Returned(q, <<clog, LogRec("Warn",
                                 "media already in watchlist", ids, Nil)>>,
                                 "ErrDuplicateEntry", Nil)
                        ELSE [q EXCEPT !.pc = "write", !.logs = q.logs \o <<clog>>]
                   [] q.method = "RemoveFromWatchlist" ->
                        IF cerr # Nil
                        THEN Returned(q, <<clog, LogRec("Error",
                                 "failed to check watchlist existence", ids, cerr)>>,
                                 cerr, Nil)
                        ELSE IF ~exists
                        THEN Returned(q, <<clog, LogRec("Warn",
                                 "media not found in watchlist", ids, Nil)>>,
                                 "ErrRecordNotFound", Nil)
                        ELSE [q EXCEPT !.pc = "write", !.logs = q.logs \o <<clog>>]]
    /\ UNCHANGED <<rows, lastRowId, procVars, fnVars>>

\* db.Create of AddToWatchlist and db.Delete of RemoveFromWatchlist, and the
\* return through the service; dbOk: the statement succeeds
RepoWrite(p) ==
    /\ req[p].pc = "write"
    /\ \E dbOk \in BOOLEAN :
          LET q == req[p]
              ids == <<q.media, q.user>>
          IN  IF q.method = "AddToWatchlist"
              THEN IF dbOk
                   THEN /\ rows' = Append(rows, [id |-> lastRowId + 1,
                                                 media |-> q.media, user |-> q.user])
                        /\ lastRowId' = lastRowId + 1
                        /\ req' = [req EXCEPT ![p] = Returned(q,
                              <<LogRec("Info", "media added to watchlist successfully",
                                       ids, Nil)>>, Nil, Nil)]
                   ELSE /\ UNCHANGED <<rows, lastRowId>>
                        /\ req' = [req EXCEPT ![p] = Returned(q,
                              <<LogRec("Error", "failed to add media to watchlist",
                                       ids, DbErr)>>, DbErr, Nil)]
              ELSE IF dbOk
                   THEN /\ rows' = Without(rows, q.media, q.user)
                        /\ UNCHANGED lastRowId
                        /\ req' = [req EXCEPT ![p] = Returned(q,
                              <<LogRec("Info", "media removed from watchlist successfully",
                                       ids, Nil)>>, Nil, Nil)]
                   ELSE /\ UNCHANGED <<rows, lastRowId>>
                        /\ req' = [req EXCEPT ![p] = Returned(q,
                              <<LogRec("Error", "failed to remove media from watchlist",
                                       ids, DbErr)>>, DbErr, Nil)]
    /\ UNCHANGED <<procVars, fnVars>>

\* GetWatchlist of PostgresRepository and the return through the service;
\* dbOk: the SELECT statement succeeds
RepoFind(p) ==
    /\ req[p].pc = "find"
    /\ \E dbOk \in BOOLEAN :
          LET q == req[p]
          IN  req' = [req EXCEPT ![p] =
                 IF q.ctx # "live"
                 THEN Returned(q, <<LogRec("Error", <<"GetWatchlist", " operation canceled">>,
                                           <<q.user>>, q.ctx)>>, q.ctx, <<>>)
                 ELSE IF dbOk
                 THEN Returned(q, <<LogRec("Info", "watchlist fetched successfully",
                                           <<q.user>>, Nil)>>, Nil, OfUser(rows, q.user))
                 ELSE Returned(q, <<LogRec("Error", "failed to get watchlist",
                                           <<q.user>>, DbErr)>>, DbErr, <<>>)]
    /\ UNCHANGED <<rows, lastRowId, procVars, fnVars>>

SvcNext ==
    \/ \E p \in Requests : ServiceCall(p)
    \/ \E p \in Requests : CtxDone(p)
    \/ \E p \in Requests : RepoEntry(p)
    \/ \E p \in Requests : RepoCount(p)
    \/ \E p \in Requests : RepoWrite(p)
    \/ \E p \in Requests : RepoFind(p)

SvcSpec == Init /\ [][SvcNext]_vars

\* the number of rows of the table for the pair (user, media)
RowsOf(media, user) == Cardinality(Matching(rows, media, user))

\* C15: whatever the interleaving of the requests, the table holds at most
\* one row for a pair (user, media).
C15_AtMostOneRowPerPair ==
    \A media \in MediaIds, user \in UserIds : RowsOf(media, user) <= 1

\* C16: a service method called with a context that is already done logs one
\* record, of level Error, with the text "<method> operation canceled" and
\* the context's error, returns that error with code Canceled, calls no
\* repository method, and its step leaves the table as it is.
C16_CancelledCallStopsAtService ==
    /\ [](\A p \in Requests :
             (req[p].pc # "idle" /\ req[p].atCall # "live") =>
                 /\ req[p].pc = "done"
                 /\ req[p].logs = <<[level |-> "Error",
                                     text |-> <<req[p].method, " operation canceled">>,
                                     ids |-> <<>>,
                                     err |-> req[p].atCall]>>
                 /\ req[p].code = "Canceled"
                 /\ req[p].resp = req[p].atCall
                 /\ req[p].repoCalls = 0)
    /\ [][\A p \in Requests :
             (req[p].pc = "idle" /\ req'[p].pc # "idle"
                 /\ req'[p].atCall # "live") =>
                     rows' = rows /\ lastRowId' = lastRowId]_vars

\* C16 witness: a request was called with its deadline passed, after another
\* request had added a row
C16_Witness ==
    /\ rows # <<>>
    /\ \E p \in Requests :
          /\ req[p].atCall = "context deadline exceeded"
          /\ req[p].method = "RemoveFromWatchlist"
          /\ req[p].media = rows[1].media /\ req[p].user = rows[1].user
          /\ req[p].pc = "done"

\* the requests that returned from AddToWatchlist for (media, user), were
\* called with a live context, and ran with no other request inside the
\* repository
SoloAdds(media, user) ==
    {p \in Requests :
        /\ req[p].pc = "done" /\ req[p].method = "AddToWatchlist"
        /\ req[p].media = media /\ req[p].user = user
        /\ req[p].atCall = "live" /\ ~req[p].overlap}

\* the request's context stayed live and every statement it sent succeeded
NoFailure(q) == q.code \notin {"Internal", "Canceled"}

\* C21: AddToWatchlist of the service, called for a pair that is in the table
\* and running with no other request beside it, never reaches db.Create and
\* returns with the table as it was at the call; it returns Success=true with
\* no error (unless its context ends or the COUNT statement fails, when it
\* returns that error).  So when all requests so far were such calls for one
\* pair, one after the other, the table holds one row, as after the first.
C21_AddIsIdempotent ==
    /\ [](\A p \in Requests :
             LET q == req[p]
             IN  (/\ q.method = "AddToWatchlist" /\ ~q.overlap
                  /\ Matching(q.seen, q.media, q.user) # {}) =>
                     /\ q.pc # "write"
                     /\ InFlight(q) => rows = q.seen
                     /\ (q.pc = "done" /\ NoFailure(q)) =>
                            /\ q.code = "OK"
                            /\ q.resp = [Success |-> TRUE])
    /\ [][\A p \in Requests :
             (/\ InFlight(req[p]) /\ req'[p].pc = "done"
              /\ req[p].method = "AddToWatchlist" /\ ~req[p].overlap
              /\ Matching(req[p].seen, req[p].media, req[p].user) # {}) =>
                 rows' = req[p].seen /\ lastRowId' = lastRowId]_vars
    /\ [](\A media \in MediaIds, user \in UserIds :
             (/\ \A p \in Requests :
                    req[p].pc = "idle" \/ (p \in SoloAdds(media, user)
                                             /\ req[p].code = "OK")
              /\ SoloAdds(media, user) # {}) =>
                 /\ Len(rows) = 1
                 /\ rows[1].media = media /\ rows[1].user = user)

\* C21 witness: two calls of AddToWatchlist for one pair, one after the
\* other, both answered with Success=true; the second found the row
C21_Witness ==
    \E media \in MediaIds, user \in UserIds :
        /\ Cardinality(SoloAdds(media, user)) = 2
        /\ \A p \in SoloAdds(media, user) :
              req[p].code = "OK" /\ req[p].resp = [Success |-> TRUE]
        /\ \E p \in SoloAdds(media, user) : req[p].seen # <<>>
        /\ Len(rows) = 1

\* the numbers of the records Handle of the sink with history h enqueued
Accepted(h) == {h[i].id : i \in {j \in DOMAIN h : h[j].ok}}

\* sequence s has no number twice
NoRepeat(s) == \A i, j \in DOMAIN s : s[i].id = s[j].id => i = j

\* C22: in every reachable state the queue of each async sink holds at least
\* 0 and at most bufferSize records, however Handle calls and worker steps
\* interleave (before LoadConfig has returned there is no queue).
C22_QueueWithinCapacity ==
    /\ Len(kLogChan) >= 0 /\ Len(fLogChan) >= 0
    /\ bufferSize > 0 =>
          /\ Len(kLogChan) <= bufferSize
          /\ Len(fLogChan) <= bufferSize
    /\ bufferSize = 0 => (kLogChan = <<>> /\ fLogChan = <<>>)

\* C22 witness: the file queue is full and a record was refused, while the
\* Kafka worker has emptied its queue
C22_Witness ==
    /\ bufferSize > 0
    /\ Len(fLogChan) = bufferSize
    /\ \E i \in DOMAIN fHist : ~fHist[i].ok
    /\ kLogChan = <<>> /\ kOut # <<>>

\* C23: each entry of a sink's output is what the sink emits for a record
\* that a Handle call on this sink had enqueued, and no record is in the
\* output twice; a record is in at most one of queue, worker's hands and
\* output.
C23_OutputIsAcceptedOnce ==
    /\ \A i \in DOMAIN fOut :
          /\ fOut[i].id \in Accepted(fHist)
          /\ fOut[i] = FileOutEntry(calls[fOut[i].id].rec)
    /\ \A i \in DOMAIN kOut :
          /\ kOut[i].id \in Accepted(kHist)
          /\ kOut[i] = KafkaOutEntry(calls[kOut[i].id].rec)
    /\ NoRepeat(fOut) /\ NoRepeat(kOut)
    /\ NoRepeat(fLogChan \o (IF fRec = NoRec THEN <<>> ELSE <<fRec>>) \o fOut)
    /\ NoRepeat(kLogChan \o (IF kMsg = NoRec THEN <<>> ELSE <<kMsg>>) \o kOut)
    /\ Cardinality(Accepted(fHist)) =
          Len(fLogChan) + (IF fRec = NoRec THEN 0 ELSE 1) + Len(fOut)
    /\ Cardinality(Accepted(kHist)) =
          Len(kLogChan) + (IF kMsg = NoRec THEN 0 ELSE 1) + Len(kOut)

\* C23 witness: both sinks were closed after each had emitted two records,
\* and a record was refused by the file sink
C23_Witness ==
    /\ Len(fOut) >= 2 /\ Len(kOut) >= 2
    /\ file = "closed" /\ producer = "closed"
    /\ \E i \in DOMAIN fHist : ~fHist[i].ok

-----------------------------------------------------------------------------
(* A caller of the package that closes a sink twice: main with a second     *)
(* CloseAll, on a dispatcher derived by WithAttrs, or a second Close         *)

\* the children of the dispatcher WithAttrs makes of the one NewLogger built
DerivedHandlers == MultiWithAttrs(Handlers, <<"attr">>).ret

\* CloseAll of the first dispatcher is over, and CloseAll of the derived
\* dispatcher is called: its loop is over the same sinks
CloseAllDerived ==
    /\ mainPc = "closeAll"
    /\ closing = "none"
    /\ caIdx > Len(Handlers)
    /\ closeAllCalls = 1
    /\ DerivedHandlers = Handlers
    /\ closeAllCalls' = closeAllCalls + 1
    /\ caIdx' = 1
    /\ UNCHANGED <<auxVars, mainPc, bufferSize, kafkaVars, fileVars, logVars,
                   closing, closeCalls, closeRet, resClose, closeAllRet,
                   serverDone>>

\* CloseAll is over, and Close of one of the async sinks is called once more
SinkCloseAgain ==
    /\ mainPc = "closeAll"
    /\ closing = "none"
    /\ caIdx > Len(Handlers)
    /\ \E h \in {"kafka", "file"} :
          IF h = "kafka"
          THEN /\ KafkaCloseSignal("closeAll")
               /\ UNCHANGED <<fQuitChan, fAtClose>>
          ELSE /\ FileCloseSignal("closeAll")
               /\ UNCHANGED <<kQuitChan, kAtClose>>
    /\ UNCHANGED <<auxVars, bufferSize, producer, kLogChan, kWorker, kMsg,
                   kErrWorker, kDiag, kOut, fDir, file, fLogChan, fWorker, fRec,
                   fOut, logVars, caIdx, closeRet, resClose, closeAllCalls,
                   closeAllRet, serverDone>>

ReuseNext ==
    \/ Next
    \/ CloseAllDerived
    \/ SinkCloseAgain

ReuseSpec == Init /\ [][ReuseNext]_vars

\* C24: a second Close of the Kafka handler or of the file handler, called
\* directly or by CloseAll of a dispatcher that shares the sink, panics at
\* close(quitChan): the step leaves the producer and the file, and the
\* results of their close, as they were, and nothing touches them afterwards.
C24_SecondClosePanics ==
    /\ [](\A h \in {"kafka", "file"} :
             closeCalls[h] >= 2 => (mainPc = "panic" /\ closeCalls[h] = 2))
    /\ [][\A h \in {"kafka", "file"} :
             (closeCalls'[h] = closeCalls[h] + 1 /\ closeCalls[h] >= 1) =>
                 /\ mainPc' = "panic"
                 /\ producer' = producer /\ file' = file
                 /\ resClose' = resClose /\ closeRet' = closeRet]_vars
    /\ [][mainPc = "panic" =>
             /\ mainPc' = "panic"
             /\ producer' = producer /\ file' = file
             /\ resClose' = resClose /\ closeRet' = closeRet]_vars

\* C24 witness: CloseAll of the derived dispatcher has reached the Kafka
\* handler, which the first CloseAll had closed
C24_Witness ==
    /\ closeAllCalls = 2
    /\ mainPc = "panic"
    /\ closeCalls["kafka"] = 2 /\ closeCalls["file"] = 1
    /\ producer = "closed" /\ file = "closed"

====
